---- MODULE Spec2Model ----
(***************************************************************************)
(* Hybrid relevance mapping (RelevanceMappingService.execute).             *)
(*                                                                         *)
(* Units.  A similarity / embeddingScore is an integer number of           *)
(* hundredths (0.55 is 55).  An LLM weight is a number of hundredths too   *)
(* (0.75 is 75), so a hybridScore, the product of the two, is a number of  *)
(* ten-thousandths (0.20 is 2000), and so is hybridScoreThreshold.         *)
(* Products and comparisons are exact (the rounding of IEEE doubles is     *)
(* not modelled).                                                          *)
(***************************************************************************)
EXTENDS Integers, Sequences, FiniteSets, TLC

VARIABLES
    pc,                  \* position of execute()
    options,             \* input.options of the run
    config,              \* { ...DEFAULT_OPTIONS, ...options }
    normalizedRequirements, \* per domain, the number of its categories
    categoryEmbeddings,  \* per domain, the vectors of its categories so far
    categoryCall,        \* the category embed call in flight (or NoCall)
    fileEmbeddings,      \* [path, embedding] collected by finished batches
    batchStart,          \* loop index i of generateFileEmbeddings
    pending,             \* paths whose embed call is in flight
    batchResults,        \* path -> embedding, the resolved calls of the batch
    similarities,        \* per domain, [path, sim] in insertion order
    phase1Results,       \* per domain, FileCandidate[]
    attempt,             \* the loop variable of llmPhase
    reply,               \* the settled result of the generateObject call
    llmCalls,            \* number of generateObject calls issued so far
    llmSettled,          \* number of generateObject calls settled so far
    llmFailures,         \* number of times the catch block of llmPhase ran
    embedFailed,         \* whether an embedding call has rejected
    phase2Results,       \* per domain, [path, assessment][]
    phase2Source,        \* which return of llmPhase produced phase2Results
    finalResults,        \* per domain, HybridScoredFile[]
    metadata,            \* metadata of the returned RelevanceMappingResult
    filesContentSummary, \* input.filesContentSummary, as the paths summarised
    embedFilesPc,        \* position of EmbeddingService.embedFiles()
    files,               \* the FileData[] embedFiles was called with
    fileIndex,           \* position of `file` in the loop of embedFiles
    chunkIndex,          \* position of `chunk` in the loop of embedFile
    embeddedCount,       \* embeddedCount of the embedFile call in progress
    success,             \* success of embedFiles
    failed,              \* failed of embedFiles
    content,             \* the content of a file of filteredFilesMap
    fileText             \* the text built from it for the embed call

\* The state of RelevanceMappingService.execute.
executeVars ==
    <<pc, options, config, normalizedRequirements, categoryEmbeddings,
      categoryCall, fileEmbeddings, batchStart, pending, batchResults,
      similarities, phase1Results, attempt, reply, llmCalls, llmSettled,
      llmFailures, embedFailed, phase2Results, phase2Source, finalResults,
      metadata, filesContentSummary>>

\* The state of EmbeddingService.embedFiles.
embedFilesVars ==
    <<embedFilesPc, files, fileIndex, chunkIndex, embeddedCount, success, failed>>

\* The state of the preparation of one file's text in generateFileEmbeddings.
truncateVars == <<content, fileText>>

vars == <<executeVars, embedFilesVars, truncateVars>>

-----------------------------------------------------------------------------
(* Sequence helpers *)

Range(s) == {s[i] : i \in DOMAIN s}

Min(a, b) == IF a <= b THEN a ELSE b

\* Array.prototype.slice(from, to) with 0-based, end-exclusive indices.
Slice(s, from, to) ==
    IF from >= Min(to, Len(s)) THEN << >>
    ELSE SubSeq(s, from + 1, Min(to, Len(s)))

\* Array.prototype.filter
RECURSIVE Filter(_, _)
Filter(s, keep) ==
    IF s = << >> THEN << >>
    ELSE IF Head(s) \in keep THEN <<Head(s)>> \o Filter(Tail(s), keep)
         ELSE Filter(Tail(s), keep)

\* x placed after every element whose key is >= its own: a stable insertion
\* into a sequence that is non-increasing in `field`.
RECURSIVE InsertDesc(_, _, _)
InsertDesc(x, s, field) ==
    IF s = << >> THEN <<x>>
    ELSE IF Head(s)[field] >= x[field]
         THEN <<Head(s)>> \o InsertDesc(x, Tail(s), field)
         ELSE <<x>> \o s

\* Array.prototype.sort((a, b) => b[field] - a[field]): stable, descending.
RECURSIVE SortDescFrom(_, _, _)
SortDescFrom(s, acc, field) ==
    IF s = << >> THEN acc
    ELSE SortDescFrom(Tail(s), InsertDesc(Head(s), acc, field), field)

SortDesc(s, field) == SortDescFrom(s, << >>, field)

IsSortedDesc(s, field) ==
    \A i \in 1..(Len(s) - 1) : s[i][field] >= s[i + 1][field]

PathsOf(s) == {s[i].path : i \in DOMAIN s}

-----------------------------------------------------------------------------
(* Inputs *)

\* The three requirement types, in the key order of the result objects.
Domains == <<"best_practices", "functional_requirements",
             "non_functional_requirements">>

DomainSet == Range(Domains)

\* Object.entries(filteredFilesMap), in insertion order.
Files == <<"a.ts", "b.ts">>

FileSet == Range(Files)

\* Vectors the embedding model returns for a file text.
FileVectors == {<<1, 0>>, <<3, 4>>}

\* Vectors the embedding model returns for a category query.
CategoryVectors == {<<1, 0>>, <<4, 3>>}

\* The normalizedRequirements of the runs explored: per requirement type,
\* the number of its categories.
RequirementInputs ==
    {[best_practices |-> 1, functional_requirements |-> 1,
      non_functional_requirements |-> 0],
     [best_practices |-> 2, functional_requirements |-> 0,
      non_functional_requirements |-> 1]}

Assessments == {"PRIMARY", "SECONDARY", "SUPPORTING", "IRRELEVANT"}

\* LLM_WEIGHT with the weight of SECONDARY mistyped.
LLM_WEIGHT_secondaryMistyped ==
    [PRIMARY |-> 100, SECONDARY |-> 70, SUPPORTING |-> 50, IRRELEVANT |-> 0]

LLM_WEIGHT ==
    [PRIMARY |-> 100, SECONDARY |-> 75, SUPPORTING |-> 50, IRRELEVANT |-> 0]

DEFAULT_OPTIONS ==
    [embeddingTopK |-> 20,
     embeddingThreshold |-> 55,
     embeddingRetryThresholds |-> <<45, 35, 25, 15>>,
     minCandidatesForPhase2 |-> 10,
     maxTokensPerFile |-> 6000,
     parallelBatchSize |-> 10,
     hybridScoreThreshold |-> 2000]

\* The option objects a caller passes in the runs explored.
OptionSets ==
    {[embeddingTopK |-> 20],
     [embeddingThreshold |-> 98, embeddingRetryThresholds |-> <<90, 70, 50>>,
      minCandidatesForPhase2 |-> 1, parallelBatchSize |-> 1,
      hybridScoreThreshold |-> 5000]}

\* { ...DEFAULT_OPTIONS, ...options }
MergeOptions(defaults, given) ==
    [k \in DOMAIN defaults |->
        IF k \in DOMAIN given THEN given[k] ELSE defaults[k]]

NoCall == [domain |-> 0, index |-> 0]

EmptyByDomain == [d \in DomainSet |-> << >>]

\* Math.max() of no arguments.
NegInfinity == 0 - 1000000

-----------------------------------------------------------------------------
(* Similarity engine *)

Dot(a, b) == a[1] * b[1] + a[2] * b[2]

\* Math.sqrt on the perfect squares the vectors above give.
Sqrt(n) == CHOOSE r \in 0..n : r * r = n

\* cosineSimilarity, in hundredths.
cosineSimilarity(vecA, vecB) ==
    (Dot(vecA, vecB) * 100) \div (Sqrt(Dot(vecA, vecA)) * Sqrt(Dot(vecB, vecB)))

MaxOf(S) == IF S = {} THEN NegInfinity ELSE CHOOSE m \in S : \A x \in S : x <= m

\* The sum of a sequence of numbers.
RECURSIVE SumSeq(_)
SumSeq(q) == IF q = << >> THEN 0 ELSE Head(q) + SumSeq(Tail(q))

\* computeSimilarities taking the average similarity over the categories.
computeSimilaritiesFor_average(fileEmbs, categoryEmbs) ==
    [i \in DOMAIN fileEmbs |->
        [path |-> fileEmbs[i].path,
         sim  |-> IF categoryEmbs = << >> THEN NegInfinity
                  ELSE SumSeq([k \in DOMAIN categoryEmbs |->
                                  cosineSimilarity(fileEmbs[i].embedding,
                                                   categoryEmbs[k])])
                           \div Len(categoryEmbs)]]

\* computeSimilarities for one requirement type: the maximum similarity of
\* each file over the type's category vectors, keyed in fileEmbeddings order.
computeSimilaritiesFor(fileEmbs, categoryEmbs) ==
    [i \in DOMAIN fileEmbs |->
        [path |-> fileEmbs[i].path,
         sim  |-> MaxOf({cosineSimilarity(fileEmbs[i].embedding, categoryEmbs[k]) :
                            k \in DOMAIN categoryEmbs})]]

computeSimilarities(fileEmbs, categoryEmbs) ==
    [d \in DomainSet |-> computeSimilaritiesFor(fileEmbs, categoryEmbs[d])]

-----------------------------------------------------------------------------
(* Candidate selection *)

\* filterAndSortByThreshold with slice(0, topK) applied before the sort.
filterAndSortByThreshold_sliceFirst(fileSims, threshold, topK) ==
    LET kept   == Filter(fileSims, {e \in Range(fileSims) : e.sim >= threshold})
        top    == Slice(kept, 0, topK)
        sorted == SortDesc(top, "sim")
    IN  [i \in DOMAIN sorted |->
            [path |-> sorted[i].path, embeddingScore |-> sorted[i].sim]]

\* filterAndSortByThreshold: filter sim >= threshold, sort descending,
\* slice(0, topK), map to FileCandidate.
filterAndSortByThreshold(fileSims, threshold, topK) ==
    LET kept   == Filter(fileSims, {e \in Range(fileSims) : e.sim >= threshold})
        sorted == SortDesc(kept, "sim")
        top    == Slice(sorted, 0, topK)
    IN  [i \in DOMAIN top |-> [path |-> top[i].path, embeddingScore |-> top[i].sim]]

\* The retry loop without its break: every retry threshold is applied.
RECURSIVE retryThresholds_noBreak(_, _, _, _)
retryThresholds_noBreak(fileSims, candidates, retries, cfg) ==
    IF retries = << >> THEN candidates
    ELSE retryThresholds_noBreak(
             fileSims,
             filterAndSortByThreshold(fileSims, Head(retries), cfg.embeddingTopK),
             Tail(retries), cfg)

\* The retry loop of selectTopCandidates: `candidates` is the current
\* selection, `retries` the thresholds not yet tried.
RECURSIVE retryThresholds(_, _, _, _)
retryThresholds(fileSims, candidates, retries, cfg) ==
    IF retries = << >> THEN candidates
    ELSE LET next == filterAndSortByThreshold(fileSims, Head(retries),
                                              cfg.embeddingTopK)
         IN  IF Len(next) >= cfg.minCandidatesForPhase2 THEN next
             ELSE retryThresholds(fileSims, next, Tail(retries), cfg)

\* selectTopCandidates without adaptive thresholding: the selection at
\* embeddingThreshold is the result.
selectTopCandidatesFor_noRetry(fileSims, cfg) ==
    filterAndSortByThreshold(fileSims, cfg.embeddingThreshold, cfg.embeddingTopK)

\* selectTopCandidates handing over every file, best first, when no
\* threshold selects any.
selectTopCandidatesFor_neverEmpty(fileSims, cfg) ==
    LET candidates == filterAndSortByThreshold(fileSims, cfg.embeddingThreshold,
                                               cfg.embeddingTopK)
        found == IF Len(candidates) < cfg.minCandidatesForPhase2
                 THEN retryThresholds(fileSims, candidates,
                                      cfg.embeddingRetryThresholds, cfg)
                 ELSE candidates
    IN  IF found = << >>
        THEN filterAndSortByThreshold(fileSims, NegInfinity, cfg.embeddingTopK)
        ELSE found

\* The body of the loop of selectTopCandidates for one requirement type.
selectTopCandidatesFor(fileSims, cfg) ==
    LET candidates == filterAndSortByThreshold(fileSims, cfg.embeddingThreshold,
                                               cfg.embeddingTopK)
    IN  IF Len(candidates) < cfg.minCandidatesForPhase2
        THEN retryThresholds(fileSims, candidates,
                             cfg.embeddingRetryThresholds, cfg)
        ELSE candidates

selectTopCandidates(sims, cfg) ==
    [d \in DomainSet |-> selectTopCandidatesFor(sims[d], cfg)]

-----------------------------------------------------------------------------
(* Phase 2 helpers *)

\* Largest number of assessments in one classifier response (all lists).
MaxResponseEntries == 2

\* The loop bound of llmPhase: attempt <= 3.
MaxAttempts == 3

AssessmentEntries == [path : FileSet, assessment : Assessments]

EntryLists(n) == [1..n -> AssessmentEntries]

\* The schema-conformant objects generateObject can deliver: three arrays of
\* {path, assessment}, with at most MaxResponseEntries entries in all.
Responses ==
    UNION {
        {[best_practices |-> a, functional_requirements |-> b,
          non_functional_requirements |-> c] :
            a \in EntryLists(l[1]), b \in EntryLists(l[2]), c \in EntryLists(l[3])} :
        l \in {t \in (0..MaxResponseEntries) \X (0..MaxResponseEntries)
                      \X (0..MaxResponseEntries) :
                  t[1] + t[2] + t[3] <= MaxResponseEntries}}

NoReply == [kind |-> "none", object |-> EmptyByDomain]

\* How a generateObject call can settle: rejected by the provider or the
\* network, rejected because the output does not parse as llmPhaseSchema, or
\* resolved with a schema-conformant object.
Replies ==
    {[kind |-> "provider_error", object |-> EmptyByDomain],
     [kind |-> "unparsable", object |-> EmptyByDomain]}
    \cup {[kind |-> "object", object |-> r] : r \in Responses}

\* candidatePaths of llmPhase: the union of the three candidate lists.
candidatePaths(p1) == UNION {PathsOf(p1[d]) : d \in DomainSet}

\* allPaths of validateLlmOutput.
allPaths(output) == UNION {PathsOf(output[d]) : d \in DomainSet}

missingPaths(output, expectedPaths) == expectedPaths \ allPaths(output)

extraPaths(output, expectedPaths) == allPaths(output) \ expectedPaths

\* The number of entries of `output`, over its three lists, with `path`.
occurrences(output, path) ==
    Cardinality({<<d, i>> \in DomainSet \X (1..MaxResponseEntries) :
                    i \in DOMAIN output[d] /\ output[d][i].path = path})

\* validateLlmOutput checking the missing files only.
validateLlmOutput_missingOnly(output, expectedPaths) ==
    ~ (Cardinality(missingPaths(output, expectedPaths)) > 0)

\* validateLlmOutput rejecting, in addition, a repeated path.
validateLlmOutput_exactlyOnce(output, expectedPaths) ==
    /\ missingPaths(output, expectedPaths) = {}
    /\ extraPaths(output, expectedPaths) = {}
    /\ \A p \in expectedPaths : occurrences(output, p) = 1

\* validateLlmOutput: TRUE when it returns, FALSE when it throws.
validateLlmOutput(output, expectedPaths) ==
    ~ (Cardinality(missingPaths(output, expectedPaths)) > 0
       \/ Cardinality(extraPaths(output, expectedPaths)) > 0)

\* assessFile marking every file as SECONDARY.
assessFile_allSecondary(file) ==
    [path |-> file.path, assessment |-> "SECONDARY"]

\* assessFile of createFallbackAssessment.
assessFile(file) ==
    [path |-> file.path,
     assessment |-> IF file.embeddingScore > 60 THEN "PRIMARY"
                    ELSE IF file.embeddingScore > 40 THEN "SECONDARY"
                    ELSE "SUPPORTING"]

\* createFallbackAssessment marking every file IRRELEVANT when the last
\* attempt was rejected by the provider.
createFallbackAssessment_byFailureKind(p1) ==
    [d \in DomainSet |->
        [i \in DOMAIN p1[d] |->
            IF reply.kind = "provider_error"
            THEN [path |-> p1[d][i].path, assessment |-> "IRRELEVANT"]
            ELSE assessFile(p1[d][i])]]

createFallbackAssessment(p1) ==
    [d \in DomainSet |-> [i \in DOMAIN p1[d] |-> assessFile(p1[d][i])]]

-----------------------------------------------------------------------------
(* Phase 2: the request of an attempt *)

\* A prompt is modelled by its parts: a system prompt is the sequence of
\* its sections, a user prompt the record of what it interpolates.

\* filesContentSummary.filter(f => candidatePaths.has(f.path))
filteredSummaries(summaries, p1) == Filter(summaries, candidatePaths(p1))

\* buildSystemPrompt: the fixed instructions.
buildSystemPrompt ==
    <<"You are a specialized agent for assessing file relevance to requirement categories.">>

\* buildRetrySystemPrompt
buildRetrySystemPrompt(n) ==
    buildSystemPrompt \o
        <<IF n = 2 THEN "CRITICAL REMINDER (Attempt 2)"
          ELSE "FINAL ATTEMPT (Attempt 3)">>

\* buildUserPrompt: the task, the requirements, the summaries of the
\* candidate files and the embedding scores by requirement type.
buildUserPrompt(summaries, requirements, p1) ==
    [heading |-> "TASK",
     totalFiles |-> Len(summaries),
     requirements |-> requirements,
     candidateFiles |-> summaries,
     embeddingScores |-> p1]

\* buildRetryUserPrompt repeating the prompt of the first attempt.
buildRetryUserPrompt_full(summaries, n) ==
    buildUserPrompt(summaries, normalizedRequirements, phase1Results)

\* buildRetryUserPrompt: a heading, the number of files and their paths.
buildRetryUserPrompt(summaries, n) ==
    [heading |-> IF n = 2 THEN "ATTEMPT 2" ELSE "ATTEMPT 3 - LAST CHANCE",
     totalFiles |-> Len(summaries),
     files |-> summaries]

\* The system prompt and the user message of the generateObject call of
\* attempt n.
generateObjectRequest(n, summaries, requirements, p1) ==
    LET filtered == filteredSummaries(summaries, p1)
    IN  [system |-> IF n = 1 THEN buildSystemPrompt
                    ELSE buildRetrySystemPrompt(n),
         user   |-> IF n = 1 THEN buildUserPrompt(filtered, requirements, p1)
                    ELSE buildRetryUserPrompt(filtered, n)]

-----------------------------------------------------------------------------
(* Phase 3 helpers *)

NoAssessment == "undefined"

\* The lookup falling back, for a path the list does not hold, to the lists
\* of the other requirement types.
phase2MapGet_acrossTypes(phase2Files, path) ==
    LET hits   == {i \in DOMAIN phase2Files : phase2Files[i].path = path}
        others == {e \in UNION {Range(phase2Results[d]) : d \in DomainSet} :
                      e.path = path}
    IN  IF hits # {}
        THEN phase2Files[CHOOSE i \in hits : \A j \in hits : j <= i].assessment
        ELSE IF others # {} THEN (CHOOSE e \in others : TRUE).assessment
        ELSE NoAssessment

\* new Map(phase2Files.map(f => [f.path, f])).get(path): the last entry
\* with that path, or undefined.
phase2MapGet(phase2Files, path) ==
    LET hits == {i \in DOMAIN phase2Files : phase2Files[i].path = path}
    IN  IF hits = {} THEN NoAssessment
        ELSE phase2Files[CHOOSE i \in hits : \A j \in hits : j <= i].assessment

\* mergePhaseResults built from the assessed paths instead of the candidates,
\* with a score of 1.0 for a path that is no candidate.
mergePhaseResults_fromPhase2(phase1Files, phase2Files) ==
    [i \in DOMAIN phase2Files |->
        LET hits == {j \in DOMAIN phase1Files :
                        phase1Files[j].path = phase2Files[i].path}
        IN  [path |-> phase2Files[i].path,
             embeddingScore |-> IF hits = {} THEN 100
                                ELSE phase1Files[CHOOSE j \in hits : TRUE].embeddingScore,
             llmAssessment |-> phase2Files[i].assessment]]

\* mergePhaseResults
mergePhaseResults(phase1Files, phase2Files) ==
    [i \in DOMAIN phase1Files |->
        [path |-> phase1Files[i].path,
         embeddingScore |-> phase1Files[i].embeddingScore,
         llmAssessment |-> phase2MapGet(phase2Files, phase1Files[i].path)]]

\* computeHybridScore defaulting a missing assessment to SUPPORTING.
computeHybridScore_defaultSupporting(file) ==
    LET llmAssessment == IF file.llmAssessment = NoAssessment THEN "SUPPORTING"
                         ELSE file.llmAssessment
    IN  [path |-> file.path,
         embeddingScore |-> file.embeddingScore,
         llmAssessment |-> llmAssessment,
         hybridScore |-> file.embeddingScore * LLM_WEIGHT[llmAssessment]]

\* computeHybridScore
computeHybridScore(file) ==
    LET llmAssessment == IF file.llmAssessment = NoAssessment THEN "IRRELEVANT"
                         ELSE file.llmAssessment
    IN  [path |-> file.path,
         embeddingScore |-> file.embeddingScore,
         llmAssessment |-> llmAssessment,
         hybridScore |-> file.embeddingScore * LLM_WEIGHT[llmAssessment]]

\* hybridScoringPhaseFor without the sort by hybrid score.
hybridScoringPhaseFor_unsorted(phase1Files, phase2Files, cfg) ==
    LET merged == mergePhaseResults(phase1Files, phase2Files)
        scored == [i \in DOMAIN merged |-> computeHybridScore(merged[i])]
    IN  Filter(scored, {f \in Range(scored) :
                           f.hybridScore >= cfg.hybridScoreThreshold})

\* hybridScoringPhaseFor keeping only hybridScore > hybridScoreThreshold.
hybridScoringPhaseFor_strictFilter(phase1Files, phase2Files, cfg) ==
    LET merged == mergePhaseResults(phase1Files, phase2Files)
        scored == [i \in DOMAIN merged |-> computeHybridScore(merged[i])]
        sorted == SortDesc(scored, "hybridScore")
    IN  Filter(sorted, {f \in Range(sorted) :
                           f.hybridScore > cfg.hybridScoreThreshold})

\* The body of the loop of hybridScoringPhase for one requirement type.
hybridScoringPhaseFor(phase1Files, phase2Files, cfg) ==
    LET merged == mergePhaseResults(phase1Files, phase2Files)
        scored == [i \in DOMAIN merged |-> computeHybridScore(merged[i])]
        sorted == SortDesc(scored, "hybridScore")
    IN  Filter(sorted, {f \in Range(sorted) :
                           f.hybridScore >= cfg.hybridScoreThreshold})

hybridScoringPhase(p1, p2, cfg) ==
    [d \in DomainSet |-> hybridScoringPhaseFor(p1[d], p2[d], cfg)]

\* countCandidates counting the first list only.
countCandidates_firstListOnly(result) == Len(result.best_practices)

\* countCandidates / countIncluded
countCandidates(result) ==
    Len(result.best_practices) + Len(result.functional_requirements)
        + Len(result.non_functional_requirements)

NoMetadata ==
    [phase1_total_candidates |-> 0, phase2_assessed_files |-> 0,
     final_included_files |-> 0]

-----------------------------------------------------------------------------
(* EmbeddingService: inputs *)

\* Largest number of files in one embedFiles call.
MaxFiles == 3

\* Largest number of chunks (of CHUNK_SIZE lines) of one file.
MaxChunks == 2

\* A FileData as embedFile sees it: whether its content is a string (on
\* anything else content.split throws) and, if so, the number of chunks
\* chunkFileContent cuts it into (at least one, also for an empty string).
FileDataInputs ==
    {[isString |-> FALSE, chunks |-> 0]}
    \cup {[isString |-> TRUE, chunks |-> n] : n \in 1..MaxChunks}

\* The lists of files embedFiles is called with.
FileLists == UNION {[1..n -> FileDataInputs] : n \in 0..MaxFiles}

\* embedFiles has not been called.
EmbedFilesIdle ==
    /\ embedFilesPc = "idle"
    /\ files = << >>
    /\ fileIndex = 0
    /\ chunkIndex = 0
    /\ embeddedCount = 0
    /\ success = 0
    /\ failed = 0

-----------------------------------------------------------------------------
(* The text of a file sent for embedding *)

\* The greatest length of a file content explored.
MaxContentChars == 6

\* 1 token is taken to be 4 characters.
CharsPerToken == 4

\* A file content is a sequence of characters.
ContentChars == {"x", "y"}

Contents == UNION {[1..n -> ContentChars] : n \in 0..MaxContentChars}

\* '\n\n// ... (truncated)'
truncationMarker ==
    <<"\n", "\n", "/", "/", " ", ".", ".", ".", " ", "(", "t", "r", "u", "n", "c",
      "a", "t", "e", "d", ")">>

\* truncateToTokenLimit cutting at maxChars without a marker.
truncateToTokenLimit_noMarker(c, maxTokens) ==
    LET maxChars == maxTokens * CharsPerToken
    IN  IF Len(c) > maxChars THEN SubSeq(c, 1, maxChars) ELSE c

\* truncateToTokenLimit
truncateToTokenLimit(c, maxTokens) ==
    LET maxChars == maxTokens * CharsPerToken
    IN  IF Len(c) > maxChars THEN SubSeq(c, 1, maxChars) \o truncationMarker
        ELSE c

\* No text has been built.
NoText == [path |-> "", truncated |-> << >>]

\* `File: ${path}\n\n${truncated}`, as its two variable parts.
fileTextOf(path, c, cfg) ==
    [path |-> path, truncated |-> truncateToTokenLimit(c, cfg.maxTokensPerFile)]

TruncateIdle ==
    /\ content = << >>
    /\ fileText = NoText

-----------------------------------------------------------------------------
(* The run of execute *)

EmptyFcn == [x \in {} |-> 0]

inputVars == <<options, normalizedRequirements, filesContentSummary>>

embedVars == <<categoryEmbeddings, categoryCall, fileEmbeddings, batchStart,
               pending, batchResults>>

llmVars == <<attempt, reply, llmCalls, llmSettled, llmFailures>>

resultVars == <<phase2Results, phase2Source, finalResults, metadata>>

\* execute has not been called.
ExecuteIdle ==
    /\ pc = "idle"
    /\ config = DEFAULT_OPTIONS
    /\ categoryEmbeddings = EmptyByDomain
    /\ categoryCall = NoCall
    /\ fileEmbeddings = << >>
    /\ batchStart = 0
    /\ pending = {}
    /\ batchResults = EmptyFcn
    /\ embedFailed = FALSE
    /\ similarities = EmptyByDomain
    /\ phase1Results = EmptyByDomain
    /\ attempt = 0
    /\ reply = NoReply
    /\ llmCalls = 0
    /\ llmSettled = 0
    /\ llmFailures = 0
    /\ phase2Results = EmptyByDomain
    /\ phase2Source = "none"
    /\ finalResults = EmptyByDomain
    /\ metadata = NoMetadata

Init ==
    /\ ExecuteIdle
    /\ options \in OptionSets
    /\ normalizedRequirements \in RequirementInputs
    /\ filesContentSummary = Files
    /\ EmbedFilesIdle
    /\ TruncateIdle

\* generateCategoryEmbeddings embedding the categories of the first
\* requirement type only.
nextCategoryCall_firstTypeOnly(catEmbs) ==
    IF Len(catEmbs[Domains[1]]) < normalizedRequirements[Domains[1]]
    THEN [domain |-> 1, index |-> Len(catEmbs[Domains[1]]) + 1]
    ELSE NoCall

\* The category whose query generateCategoryEmbeddings embeds next: the
\* first position, in Object.entries order, not yet pushed.
nextCategoryCall(catEmbs) ==
    LET open == {k \in DOMAIN Domains :
                    Len(catEmbs[Domains[k]]) < normalizedRequirements[Domains[k]]}
    IN  IF open = {} THEN NoCall
        ELSE LET k == CHOOSE m \in open : \A n \in open : m <= n
             IN  [domain |-> k, index |-> Len(catEmbs[Domains[k]]) + 1]

\* The batch taken without parallelBatchSize: every remaining file.
batchAt_ignoresBatchSize(i, cfg) == Slice(Files, i, Len(Files))

\* files.slice(i, i + parallelBatchSize), as paths.
batchAt(i, cfg) == Slice(Files, i, i + cfg.parallelBatchSize)

\* generateFileEmbeddings from loop index i on: the calls of the batch at i
\* are issued together, or the loop is over and embeddingPhase goes on.
EnterBatch(i, cfg) ==
    /\ batchStart' = i
    /\ batchResults' = EmptyFcn
    /\ IF i < Len(Files)
       THEN /\ pending' = Range(batchAt(i, cfg))
            /\ pc' = "generateFileEmbeddings"
       ELSE /\ pending' = {}
            /\ pc' = "computeSimilarities"

\* generateCategoryEmbeddings goes on after `catEmbs` has been collected.
ContinueCategories(catEmbs, cfg) ==
    LET next == nextCategoryCall(catEmbs)
    IN  /\ categoryEmbeddings' = catEmbs
        /\ categoryCall' = next
        /\ IF next = NoCall
           THEN EnterBatch(0, cfg)
           ELSE /\ pc' = "generateCategoryEmbeddings"
                /\ UNCHANGED <<batchStart, pending, batchResults>>

\* execute is called: the options are merged and the run goes up to the
\* first embedding call.
Execute ==
    /\ pc = "idle"
    /\ config' = MergeOptions(DEFAULT_OPTIONS, options)
    /\ ContinueCategories(EmptyByDomain, MergeOptions(DEFAULT_OPTIONS, options))
    /\ UNCHANGED <<embedFilesVars, truncateVars, inputVars, fileEmbeddings, embedFailed, similarities,
                   phase1Results, llmVars, resultVars>>

\* The category embed call in flight resolves with a vector.
CategoryEmbeddingResolves ==
    /\ pc = "generateCategoryEmbeddings"
    /\ categoryCall # NoCall
    /\ \E v \in CategoryVectors :
          LET d == Domains[categoryCall.domain]
          IN  ContinueCategories(
                  [categoryEmbeddings EXCEPT ![d] = Append(@, v)], config)
    /\ UNCHANGED <<embedFilesVars, truncateVars, inputVars, config, fileEmbeddings, embedFailed,
                   similarities, phase1Results, llmVars, resultVars>>

\* The category embed call in flight rejects: nothing catches it before the
\* catch of execute, which throws.
CategoryEmbeddingRejects ==
    /\ pc = "generateCategoryEmbeddings"
    /\ categoryCall # NoCall
    /\ categoryCall' = NoCall
    /\ embedFailed' = TRUE
    /\ pc' = "thrown"
    /\ UNCHANGED <<embedFilesVars, truncateVars, inputVars, config, categoryEmbeddings, fileEmbeddings,
                   batchStart, pending, batchResults, similarities,
                   phase1Results, llmVars, resultVars>>

\* The results of a whole batch, in the order of the batch.
batchEmbeddings(i, results) ==
    LET batch == batchAt(i, config)
    IN  [k \in DOMAIN batch |-> [path |-> batch[k], embedding |-> results[batch[k]]]]

\* One file embed call resolves; when it is the last of its batch,
\* Promise.all resolves, the batch is pushed and the loop goes on.
FileEmbeddingResolves ==
    /\ \E p \in pending, v \in FileVectors :
          LET results == [x \in DOMAIN batchResults \cup {p} |->
                             IF x = p THEN v ELSE batchResults[x]]
          IN  IF pc = "generateFileEmbeddings"
              THEN IF pending = {p}
                   THEN /\ fileEmbeddings' =
                              fileEmbeddings \o batchEmbeddings(batchStart, results)
                        /\ EnterBatch(batchStart + config.parallelBatchSize, config)
                   ELSE /\ pending' = pending \ {p}
                        /\ batchResults' = results
                        /\ UNCHANGED <<pc, fileEmbeddings, batchStart>>
              ELSE \* Promise.all has rejected already: the result is dropped.
                   /\ pending' = pending \ {p}
                   /\ UNCHANGED <<pc, fileEmbeddings, batchStart, batchResults>>
    /\ UNCHANGED <<embedFilesVars, truncateVars, inputVars, config, categoryEmbeddings, categoryCall,
                   embedFailed, similarities, phase1Results, llmVars, resultVars>>

\* The rejection of a file embed call swallowed (as by Promise.allSettled).
afterFileEmbeddingRejects_swallowed(at) == at

\* What the rejection of a file embed call does to execute: Promise.all
\* rejects at once, whatever else of the batch is still in flight, and the
\* catch of execute throws.
afterFileEmbeddingRejects(at) ==
    IF at = "generateFileEmbeddings" THEN "thrown" ELSE at

\* One file embed call rejects.
FileEmbeddingRejects ==
    /\ \E p \in pending : pending' = pending \ {p}
    /\ embedFailed' = TRUE
    /\ pc' = afterFileEmbeddingRejects(pc)
    /\ UNCHANGED <<embedFilesVars, truncateVars, inputVars, config, categoryEmbeddings, categoryCall,
                   fileEmbeddings, batchStart, batchResults, similarities,
                   phase1Results, llmVars, resultVars>>

\* embeddingPhase step 3.  The embeddings are not read again.
ComputeSimilarities ==
    /\ pc = "computeSimilarities"
    /\ similarities' = computeSimilarities(fileEmbeddings, categoryEmbeddings)
    /\ categoryEmbeddings' = EmptyByDomain
    /\ fileEmbeddings' = << >>
    /\ pc' = "selectTopCandidates"
    /\ UNCHANGED <<embedFilesVars, truncateVars, inputVars, config, categoryCall, batchStart, pending,
                   batchResults, embedFailed, phase1Results, llmVars, resultVars>>

\* embeddingPhase step 4 and its return to execute.
SelectTopCandidates ==
    /\ pc = "selectTopCandidates"
    /\ phase1Results' = selectTopCandidates(similarities, config)
    /\ pc' = "llmPhase"
    /\ UNCHANGED <<embedFilesVars, truncateVars, inputVars, config, embedVars, embedFailed, similarities,
                   llmVars, resultVars>>

\* llmPhase up to its first await: attempt 1 is issued.  The similarities
\* are not read again.
LlmPhaseStart ==
    /\ pc = "llmPhase"
    /\ similarities' = EmptyByDomain
    /\ attempt' = 1
    /\ llmCalls' = llmCalls + 1
    /\ pc' = "generateObject"
    /\ UNCHANGED <<embedFilesVars, truncateVars, inputVars, config, embedVars, embedFailed, phase1Results,
                   reply, llmSettled, llmFailures, resultVars>>

\* The generateObject call in flight settles.
GenerateObjectSettles ==
    /\ pc = "generateObject"
    /\ reply = NoReply
    /\ reply' \in Replies
    /\ llmSettled' = llmSettled + 1
    /\ UNCHANGED <<embedFilesVars, truncateVars, pc, inputVars, config, embedVars, embedFailed, similarities,
                   phase1Results, attempt, llmCalls, llmFailures, resultVars>>

\* Whether the try block of llmPhase completes with the settled call `r`.
attemptSucceeds(r, p1) ==
    /\ r.kind = "object"
    /\ validateLlmOutput(r.object, candidatePaths(p1))

\* The retry test giving up one attempt early: only the first failure is
\* followed by the delay and another attempt.
retriesAfter_firstOnly(n) == n < MaxAttempts - 1

\* The retry test off by one: a fourth attempt is made.
retriesAfter_offByOne(n) == n <= MaxAttempts

\* Whether the catch block waits and lets the loop make another attempt.
retriesAfter(n) == n < MaxAttempts

\* llmPhase rethrowing lastError after the last attempt instead of
\* returning the fallback assessment.
LlmPhaseResumes_rethrows ==
    /\ pc = "generateObject"
    /\ reply # NoReply
    /\ reply' = NoReply
    /\ IF attemptSucceeds(reply, phase1Results)
       THEN /\ phase2Results' = reply.object
            /\ phase2Source' = "model"
            /\ pc' = "hybridScoringPhase"
            /\ UNCHANGED llmFailures
       ELSE /\ llmFailures' = llmFailures + 1
            /\ pc' = IF retriesAfter(attempt) THEN "retryDelay" ELSE "thrown"
            /\ UNCHANGED <<phase2Results, phase2Source>>
    /\ UNCHANGED <<embedFilesVars, truncateVars, inputVars, config, embedVars, embedFailed, similarities,
                   phase1Results, attempt, llmCalls, llmSettled, finalResults,
                   metadata>>

\* llmPhase resumes with the settled call: it returns the validated output,
\* or catches, and then waits before the next attempt or, after the last
\* attempt, returns the fallback assessment.
LlmPhaseResumes ==
    /\ pc = "generateObject"
    /\ reply # NoReply
    /\ reply' = NoReply
    /\ IF attemptSucceeds(reply, phase1Results)
       THEN /\ phase2Results' = reply.object
            /\ phase2Source' = "model"
            /\ pc' = "hybridScoringPhase"
            /\ UNCHANGED llmFailures
       ELSE /\ llmFailures' = llmFailures + 1
            /\ IF retriesAfter(attempt)
               THEN /\ pc' = "retryDelay"
                    /\ UNCHANGED <<phase2Results, phase2Source>>
               ELSE /\ phase2Results' = createFallbackAssessment(phase1Results)
                    /\ phase2Source' = "fallback"
                    /\ pc' = "hybridScoringPhase"
    /\ UNCHANGED <<embedFilesVars, truncateVars, inputVars, config, embedVars, embedFailed, similarities,
                   phase1Results, attempt, llmCalls, llmSettled, finalResults,
                   metadata>>

\* The timer of the catch block never firing.
RetryDelayElapses_neverFires ==
    /\ pc = "retryDelay"
    /\ UNCHANGED vars

\* The timer of the catch block fires: the loop issues the next attempt.
RetryDelayElapses ==
    /\ pc = "retryDelay"
    /\ attempt' = attempt + 1
    /\ llmCalls' = llmCalls + 1
    /\ pc' = "generateObject"
    /\ UNCHANGED <<embedFilesVars, truncateVars, inputVars, config, embedVars, embedFailed, similarities,
                   phase1Results, reply, llmSettled, llmFailures, resultVars>>

\* Phase 3 and the return of execute.
HybridScoringPhase ==
    /\ pc = "hybridScoringPhase"
    /\ LET final == hybridScoringPhase(phase1Results, phase2Results, config)
       IN  /\ finalResults' = final
           /\ metadata' =
                 [phase1_total_candidates |-> countCandidates(phase1Results),
                  phase2_assessed_files |-> countCandidates(phase2Results),
                  final_included_files |-> countCandidates(final)]
    /\ pc' = "returned"
    /\ UNCHANGED <<embedFilesVars, truncateVars, inputVars, config, embedVars, embedFailed, similarities,
                   phase1Results, llmVars, phase2Results, phase2Source>>

Next ==
    \/ Execute
    \/ CategoryEmbeddingResolves
    \/ CategoryEmbeddingRejects
    \/ FileEmbeddingResolves
    \/ FileEmbeddingRejects
    \/ ComputeSimilarities
    \/ SelectTopCandidates
    \/ LlmPhaseStart
    \/ GenerateObjectSettles
    \/ LlmPhaseResumes
    \/ RetryDelayElapses
    \/ HybridScoringPhase

Spec == Init /\ [][Next]_vars

\* An embedding or classifier call in flight settles.
CallSettles ==
    \/ CategoryEmbeddingResolves
    \/ CategoryEmbeddingRejects
    \/ FileEmbeddingResolves
    \/ FileEmbeddingRejects
    \/ GenerateObjectSettles

\* execute runs on from a position of Phase 1 or Phase 2 that awaits
\* nothing.
SynchronousStep ==
    \/ ComputeSimilarities
    \/ SelectTopCandidates
    \/ LlmPhaseStart
    \/ LlmPhaseResumes

\* WF_vars(HybridScoringPhase) with its ENABLED written out: the step is
\* possible exactly when execute is at hybridScoringPhase.
ScoringRuns ==
    \/ []<>(pc # "hybridScoringPhase")
    \/ []<><<HybridScoringPhase>>_vars

\* Every external call eventually returns or fails, a timer that has been
\* set fires, and code that awaits nothing runs on.
Fairness ==
    /\ WF_vars(CallSettles)
    /\ WF_vars(RetryDelayElapses)
    /\ WF_vars(SynchronousStep)
    /\ ScoringRuns

\* The runs whose completion is checked: files are embedded one per
\* batch and the retry thresholds are in use.
InitLive ==
    /\ Init
    /\ MergeOptions(DEFAULT_OPTIONS, options).parallelBatchSize = 1
    /\ normalizedRequirements["best_practices"] = 1

SpecLive == InitLive /\ [][Next]_vars /\ Fairness

-----------------------------------------------------------------------------
(* Candidate selection over drawn similarity scores *)

\* The files of the selection runs.
SelectFiles == <<"a.ts", "b.ts", "c.ts">>

\* The similarities computeSimilarities hands to selectTopCandidates.
SelectScores == {30, 60, 95}

\* The similarities of one requirement type with categories.
SelectFileSims ==
    {[i \in DOMAIN SelectFiles |-> [path |-> SelectFiles[i], sim |-> f[i]]] :
        f \in [DOMAIN SelectFiles -> SelectScores]}

\* The similarities of a requirement type without categories: for every
\* file, Math.max() of no arguments.
NoCategorySims ==
    [i \in DOMAIN SelectFiles |-> [path |-> SelectFiles[i], sim |-> NegInfinity]]

\* The option objects of the selection runs.
SelectOptions ==
    {[embeddingTopK |-> 20, embeddingThreshold |-> 90,
      embeddingRetryThresholds |-> <<50, 20>>, minCandidatesForPhase2 |-> 2],
     [embeddingTopK |-> 1, embeddingThreshold |-> 90,
      embeddingRetryThresholds |-> <<50, 20>>, minCandidatesForPhase2 |-> 2],
     [embeddingTopK |-> 2, embeddingThreshold |-> 50,
      embeddingRetryThresholds |-> << >>, minCandidatesForPhase2 |-> 1],
     [embeddingTopK |-> 0, embeddingThreshold |-> 50,
      embeddingRetryThresholds |-> <<20>>, minCandidatesForPhase2 |-> 1],
     [embeddingTopK |-> 20]}

\* embeddingPhase after step 3 of a run with one category of best
\* practices and one functional requirement: everything but the options
\* and the similarities.
SimilaritiesComputed ==
    /\ pc = "selectTopCandidates"
    /\ config = MergeOptions(DEFAULT_OPTIONS, options)
    /\ normalizedRequirements =
          [best_practices |-> 1, functional_requirements |-> 1,
           non_functional_requirements |-> 0]
    /\ categoryEmbeddings = EmptyByDomain
    /\ categoryCall = NoCall
    /\ fileEmbeddings = << >>
    /\ batchStart = DEFAULT_OPTIONS.parallelBatchSize
    /\ pending = {}
    /\ batchResults = EmptyFcn
    /\ embedFailed = FALSE
    /\ phase1Results = EmptyByDomain
    /\ attempt = 0
    /\ reply = NoReply
    /\ llmCalls = 0
    /\ llmSettled = 0
    /\ llmFailures = 0
    /\ phase2Results = EmptyByDomain
    /\ phase2Source = "none"
    /\ finalResults = EmptyByDomain
    /\ metadata = NoMetadata
    /\ EmbedFilesIdle
    /\ TruncateIdle

\* embeddingPhase after step 3, with the similarities drawn.
InitSelect ==
    /\ options \in SelectOptions
    /\ \E bp \in SelectFileSims :
          \E fr \in {s \in SelectFileSims : s[1].sim = s[2].sim /\ s[3].sim = 60} :
             similarities = [best_practices |-> bp, functional_requirements |-> fr,
                             non_functional_requirements |-> NoCategorySims]
    /\ filesContentSummary = SelectFiles
    /\ SimilaritiesComputed

NextSelect == SelectTopCandidates

SpecSelect == InitSelect /\ [][NextSelect]_vars

-----------------------------------------------------------------------------
(* Assessment and fusion over drawn similarity scores *)

\* The similarities of a.ts in the assessment runs: around the bands of
\* the fallback assessment.
AssessScores == {39, 40, 41, 60, 61}

\* The similarities of the assessment runs (files as in Files).
AssessSimilarities ==
    {[best_practices |->
          <<[path |-> Files[1], sim |-> x], [path |-> Files[2], sim |-> y]>>,
      functional_requirements |->
          <<[path |-> Files[1], sim |-> 61], [path |-> Files[2], sim |-> 39]>>,
      non_functional_requirements |->
          <<[path |-> Files[1], sim |-> NegInfinity],
            [path |-> Files[2], sim |-> NegInfinity]>>] :
        x \in AssessScores, y \in {40, 61}}

\* The option objects of the assessment runs.
AssessOptions ==
    {[embeddingThreshold |-> 30, minCandidatesForPhase2 |-> 1],
     [embeddingThreshold |-> 30, minCandidatesForPhase2 |-> 1,
      hybridScoreThreshold |-> 0],
     [embeddingThreshold |-> 30, minCandidatesForPhase2 |-> 1,
      hybridScoreThreshold |-> 0 - 1000],
     [embeddingThreshold |-> 61, embeddingRetryThresholds |-> <<60>>,
      minCandidatesForPhase2 |-> 2],
     [embeddingThreshold |-> 99, embeddingRetryThresholds |-> <<62>>,
      minCandidatesForPhase2 |-> 1]}

InitAssess ==
    /\ options \in AssessOptions
    /\ similarities \in AssessSimilarities
    /\ filesContentSummary = Files
    /\ SimilaritiesComputed

NextAssess ==
    \/ SelectTopCandidates
    \/ LlmPhaseStart
    \/ GenerateObjectSettles
    \/ LlmPhaseResumes
    \/ RetryDelayElapses
    \/ HybridScoringPhase

SpecAssess == InitAssess /\ [][NextAssess]_vars

-----------------------------------------------------------------------------
(* Assessment with file summaries that do not match the candidates *)

\* The summaries passed to execute: of both files, of a.ts only, and of a
\* third file next to the two.
PromptSummaries ==
    {<<"a.ts", "b.ts">>, <<"a.ts">>, <<"c.ts", "b.ts", "a.ts">>}

InitPrompt ==
    /\ options = [embeddingThreshold |-> 30, minCandidatesForPhase2 |-> 1]
    /\ similarities \in {q \in AssessSimilarities : q.best_practices[1].sim = 61}
    /\ filesContentSummary \in PromptSummaries
    /\ SimilaritiesComputed

NextPrompt ==
    \/ SelectTopCandidates
    \/ LlmPhaseStart
    \/ GenerateObjectSettles
    \/ LlmPhaseResumes
    \/ RetryDelayElapses
    \/ HybridScoringPhase

SpecPrompt == InitPrompt /\ [][NextPrompt]_vars

-----------------------------------------------------------------------------
(* EmbeddingService.embedFiles *)

\* The loop of embedFiles from file k on, with the counters s and f: a
\* file whose content is no string makes embedFile reject (catch:
\* failed++); a file with chunks starts the chunk loop of embedFile with
\* its first embedding call; after the last file embedFiles returns.
RECURSIVE EnterFile(_, _, _, _)
EnterFile(list, k, s, f) ==
    IF k > Len(list)
    THEN /\ embedFilesPc' = "returned"
         /\ fileIndex' = k
         /\ chunkIndex' = 0
         /\ embeddedCount' = 0
         /\ success' = s
         /\ failed' = f
    ELSE IF ~ list[k].isString
         THEN EnterFile(list, k + 1, s, f + 1)
         ELSE /\ embedFilesPc' = "generateEmbedding"
              /\ fileIndex' = k
              /\ chunkIndex' = 1
              /\ embeddedCount' = 0
              /\ success' = s
              /\ failed' = f

\* embedFile goes on after a chunk, with `count` chunks embedded so far:
\* the next chunk, or the return of count to embedFiles, which counts the
\* file as a success when count > 0 and takes the next file.
NextChunk(count) ==
    IF chunkIndex < files[fileIndex].chunks
    THEN /\ chunkIndex' = chunkIndex + 1
         /\ embeddedCount' = count
         /\ embedFilesPc' = "generateEmbedding"
         /\ UNCHANGED <<fileIndex, success, failed>>
    ELSE EnterFile(files, fileIndex + 1,
                   IF count > 0 THEN success + 1 ELSE success, failed)

\* embedFiles is called with a list of files.
EmbedFiles ==
    /\ embedFilesPc = "idle"
    /\ \E list \in FileLists :
          /\ files' = list
          /\ EnterFile(list, 1, 0, 0)
    /\ UNCHANGED <<executeVars, truncateVars, truncateVars>>

\* The embedding call of the chunk resolves: the insert is issued.
ChunkEmbeddingResolves ==
    /\ embedFilesPc = "generateEmbedding"
    /\ embedFilesPc' = "insert"
    /\ UNCHANGED <<executeVars, truncateVars, files, fileIndex, chunkIndex, embeddedCount,
                   success, failed>>

\* The embedding call of the chunk rejects: the catch of embedFile logs it.
ChunkEmbeddingRejects ==
    /\ embedFilesPc = "generateEmbedding"
    /\ NextChunk(embeddedCount)
    /\ UNCHANGED <<executeVars, truncateVars, files>>

\* The insert of the chunk resolves: embeddedCount++.
ChunkInsertResolves ==
    /\ embedFilesPc = "insert"
    /\ NextChunk(embeddedCount + 1)
    /\ UNCHANGED <<executeVars, truncateVars, files>>

\* The insert of the chunk rejects: the catch of embedFile logs it.
ChunkInsertRejects ==
    /\ embedFilesPc = "insert"
    /\ NextChunk(embeddedCount)
    /\ UNCHANGED <<executeVars, truncateVars, files>>

\* The command-line script: exit code 0 ("all files were processed
\* successfully") when result.failed is 0, else 1.
exitCode == IF failed = 0 THEN 0 ELSE 1

InitEmbedFiles ==
    /\ Init
    /\ options = [embeddingTopK |-> 20]
    /\ normalizedRequirements =
          [best_practices |-> 1, functional_requirements |-> 1,
           non_functional_requirements |-> 0]

NextEmbedFiles ==
    \/ EmbedFiles
    \/ ChunkEmbeddingResolves
    \/ ChunkEmbeddingRejects
    \/ ChunkInsertResolves
    \/ ChunkInsertRejects

SpecEmbedFiles == InitEmbedFiles /\ [][NextEmbedFiles]_vars

-----------------------------------------------------------------------------
(* generateFileEmbeddings: the text built for one file *)

\* The option objects of the runs that build a text.
TruncateOptions == {[maxTokensPerFile |-> 1], [maxTokensPerFile |-> 0]}

InitTruncate ==
    /\ ExecuteIdle
    /\ options \in TruncateOptions
    /\ normalizedRequirements =
          [best_practices |-> 1, functional_requirements |-> 1,
           non_functional_requirements |-> 0]
    /\ filesContentSummary = Files
    /\ EmbedFilesIdle
    /\ content \in Contents
    /\ fileText = NoText

\* The callback of batch.map up to its await, for the first file and the
\* configuration execute merges from the options.
BuildFileText ==
    /\ fileText = NoText
    /\ fileText' = fileTextOf(Files[1], content,
                              MergeOptions(DEFAULT_OPTIONS, options))
    /\ UNCHANGED <<executeVars, embedFilesVars, content>>

NextTruncate == BuildFileText

SpecTruncate == InitTruncate /\ [][NextTruncate]_vars

-----------------------------------------------------------------------------
(* Properties *)

Returned == pc = "returned"

\* The weight table of the specification, in hundredths.
WeightOf(assessment) ==
    CASE assessment = "PRIMARY" -> 100
      [] assessment = "SECONDARY" -> 75
      [] assessment = "SUPPORTING" -> 50
      [] assessment = "IRRELEVANT" -> 0

\* C1: in every list execute returns, every file's hybridScore is its
\* embeddingScore times the fixed weight of its llmAssessment (1.0, 0.75,
\* 0.5, 0.0), whatever the threshold, the other domains, the attempt or
\* the source (model or fallback) of the assessment.
C1_HybridScoreFormula ==
    Returned =>
        \A d \in DomainSet : \A i \in DOMAIN finalResults[d] :
            LET f == finalResults[d][i]
            IN  /\ f.llmAssessment \in Assessments
                /\ f.hybridScore = f.embeddingScore * WeightOf(f.llmAssessment)

\* C1 witness: a returned list holds a SECONDARY file and a SUPPORTING file
\* assessed by the model on a retry, with the products 0.96 * 0.75 and
\* 1.0 * 0.5.
C1_Witness ==
    /\ Returned
    /\ phase2Source = "model"
    /\ attempt > 1
    /\ \E d \in DomainSet : \E i, j \in DOMAIN finalResults[d] :
          /\ finalResults[d][i].llmAssessment = "SECONDARY"
          /\ finalResults[d][i].hybridScore = 7200
          /\ finalResults[d][j].llmAssessment = "SUPPORTING"
          /\ finalResults[d][j].hybridScore = 5000

\* The hybrid score the fusion gives candidate i of domain d.
CandidateHybridScore(d, i) ==
    computeHybridScore(
        mergePhaseResults(phase1Results[d], phase2Results[d])[i]).hybridScore

\* C2: every returned list is sorted by hybridScore, non-increasing, every
\* entry reaches config.hybridScoreThreshold, and every Phase-1 candidate
\* whose hybridScore reaches the threshold is in the list (once).
C2_SortedAndFiltered ==
    Returned =>
        \A d \in DomainSet :
            LET final == finalResults[d]
                kept  == {i \in DOMAIN phase1Results[d] :
                             CandidateHybridScore(d, i) >= config.hybridScoreThreshold}
            IN  /\ \A i \in 1..(Len(final) - 1) :
                      final[i].hybridScore >= final[i + 1].hybridScore
                /\ \A i \in DOMAIN final :
                      final[i].hybridScore >= config.hybridScoreThreshold
                /\ \A i \in kept :
                      phase1Results[d][i].path \in PathsOf(final)
                /\ Len(final) = Cardinality(kept)

\* C2 witness: a returned list of two files in the opposite order of their
\* embedding scores, while another candidate of the run was filtered out.
C2_Witness ==
    /\ Returned
    /\ \E d \in DomainSet :
          /\ Len(finalResults[d]) = 2
          /\ finalResults[d][1].hybridScore > finalResults[d][2].hybridScore
          /\ finalResults[d][1].embeddingScore < finalResults[d][2].embeddingScore
    /\ \E d \in DomainSet : Len(finalResults[d]) < Len(phase1Results[d])

\* C3: every entry of a returned list has the path and the embeddingScore
\* of a candidate Phase 1 selected for the same domain.
C3_OnlyPhase1Candidates ==
    Returned =>
        \A d \in DomainSet : \A i \in DOMAIN finalResults[d] :
            \E j \in DOMAIN phase1Results[d] :
                /\ phase1Results[d][j].path = finalResults[d][i].path
                /\ phase1Results[d][j].embeddingScore =
                       finalResults[d][i].embeddingScore

\* C3 witness: the accepted model response lists, under a domain, a path
\* that is no candidate of that domain, and the domain's returned list is
\* not empty.
C3_Witness ==
    /\ Returned
    /\ phase2Source = "model"
    /\ \E d \in DomainSet :
          /\ PathsOf(phase2Results[d]) \ PathsOf(phase1Results[d]) # {}
          /\ finalResults[d] # << >>

\* The candidate paths a classifier response is expected to hold.
ExpectedPaths == UNION {PathsOf(phase1Results[d]) : d \in DomainSet}

\* The paths a classifier response holds.
ResponsePaths(object) == UNION {PathsOf(object[d]) : d \in DomainSet}

\* llmPhase is about to resume with a schema-conformant response.
ResponseArrived == pc = "generateObject" /\ reply.kind = "object"

\* The step accepts the response: llmPhase returns it.
ResponseAccepted ==
    /\ pc' = "hybridScoringPhase"
    /\ phase2Source' = "model"
    /\ phase2Results' = reply.object

\* C4: a response is accepted if and only if the set of its paths equals
\* the expected candidate set; a response that omits an expected path or
\* holds an unexpected one is rejected and, when the attempt number is
\* below 3, the phase waits and then makes the next attempt.
C4_AcceptedIffPathSetsEqual ==
    [][/\ ResponseArrived =>
            /\ ResponseAccepted <=> (ResponsePaths(reply.object) = ExpectedPaths)
            /\ (ResponsePaths(reply.object) # ExpectedPaths /\ attempt < 3) =>
                   (pc' = "retryDelay" /\ phase2Source' = "none")
       /\ pc = "retryDelay" =>
            (pc' = "generateObject" /\ attempt' = attempt + 1
                /\ llmCalls' = llmCalls + 1)
      ]_vars

\* C4 witness: on the first attempt a response arrives that holds every
\* expected path and one unexpected path.
C4_Witness ==
    /\ ResponseArrived
    /\ attempt = 1
    /\ ExpectedPaths # {}
    /\ ExpectedPaths \subseteq ResponsePaths(reply.object)
    /\ ResponsePaths(reply.object) \ ExpectedPaths # {}

Phase2Returned == pc \in {"hybridScoringPhase", "returned"}

\* C5: whenever the Assessment Phase returns, the set of paths of each
\* domain's Phase-2 list equals the set of that domain's Phase-1 candidate
\* paths.
C5_Phase2CoversEachDomain ==
    Phase2Returned =>
        \A d \in DomainSet :
            PathsOf(phase2Results[d]) = PathsOf(phase1Results[d])

\* C6 as stated: in an accepted response every expected path appears
\* exactly once.
C6_ExactlyOnce ==
    phase2Source = "model" =>
        \A p \in ExpectedPaths : occurrences(phase2Results, p) = 1

\* Some expected path appears more than once in the response.
HasRepeatedPath(object) ==
    \E p \in ExpectedPaths : occurrences(object, p) > 1

\* C6 as amended: validation requires every expected path to appear at
\* least once and no unexpected path to appear, and does not count
\* occurrences: a response that repeats an expected path is accepted
\* exactly when these two conditions hold.
C6_RepeatedPathsAccepted ==
    [][(ResponseArrived /\ HasRepeatedPath(reply.object)) =>
          (ResponseAccepted <=>
              /\ \A p \in ExpectedPaths : occurrences(reply.object, p) >= 1
              /\ \A p \in FileSet \ ExpectedPaths : occurrences(reply.object, p) = 0)
      ]_vars

\* C6 witness: the accepted model response lists one candidate twice in
\* the same domain list, with two different assessments.
C6_Witness ==
    /\ phase2Source = "model"
    /\ \E d \in DomainSet :
          /\ Len(phase2Results[d]) = 2
          /\ phase2Results[d][1].path = phase2Results[d][2].path
          /\ phase2Results[d][1].assessment # phase2Results[d][2].assessment
          /\ phase2Results[d][1].path \in PathsOf(phase1Results[d])

AfterPhase1 ==
    {"llmPhase", "generateObject", "retryDelay", "hybridScoringPhase", "returned"}

\* C7: once Phase 1 has completed, no step of execute throws, whatever the
\* classifier does on each attempt: the third settled attempt, valid or
\* not, ends the phase, and the fusion returns the result.
C7_Phase2NeverThrows ==
    [][/\ pc \in AfterPhase1 => pc' \in AfterPhase1
       /\ (pc = "generateObject" /\ reply # NoReply /\ attempt = 3) =>
              pc' = "hybridScoringPhase"
       /\ pc = "hybridScoringPhase" => pc' = "returned"
      ]_vars

\* C7 witness: execute has returned after three failed attempts.
C7_Witness ==
    /\ Returned
    /\ llmFailures = 3
    /\ phase2Source = "fallback"
    /\ countCandidates(finalResults) > 0

\* C8: at most 3 classifier calls are made, at most one is in flight, an
\* attempt that does not fail ends the phase with its response, no call is
\* made once the phase has returned, and the fallback is produced if and
\* only if three attempts have failed.
C8_BoundedSequentialAttempts ==
    /\ [](/\ llmCalls <= 3
          /\ llmCalls - llmSettled \in {0, 1}
          /\ (phase2Source = "fallback") <=> (llmFailures = 3)
          /\ phase2Source = "model" =>
                (llmFailures = llmCalls - 1 /\ llmSettled = llmCalls))
    /\ [][/\ (pc = "generateObject" /\ reply # NoReply
                 /\ llmFailures' = llmFailures) =>
                (phase2Source' = "model" /\ phase2Results' = reply.object)
          /\ phase2Source # "none" =>
                (llmCalls' = llmCalls /\ phase2Source' = phase2Source
                    /\ phase2Results' = phase2Results)
         ]_vars

\* C8 witness: execute has returned the response of the second attempt,
\* after one failure and without a third call.
C8_Witness ==
    /\ Returned
    /\ phase2Source = "model"
    /\ llmCalls = 2
    /\ llmFailures = 1

\* C9: once an embedding call has rejected, execute has thrown: no
\* classifier call is made, no assessment (model or fallback) is produced,
\* and no result is returned.
C9_EmbeddingFailureThrows ==
    embedFailed =>
        /\ pc = "thrown"
        /\ llmCalls = 0
        /\ phase2Source = "none"
        /\ phase2Results = EmptyByDomain
        /\ finalResults = EmptyByDomain
        /\ metadata = NoMetadata

\* C9 witness: a file embed call has rejected while another call of its
\* batch is still in flight, after the category embeddings were collected.
C9_Witness ==
    /\ embedFailed
    /\ pc = "thrown"
    /\ pending # {}
    /\ \E d \in DomainSet : categoryEmbeddings[d] # << >>

\* The candidates of domain d selected with threshold t.
SelectedAt(d, t) ==
    filterAndSortByThreshold(similarities[d], t, config.embeddingTopK)

\* The positions of the retry thresholds that reach the minimum for d.
ReachingRetries(d) ==
    {k \in DOMAIN config.embeddingRetryThresholds :
        Len(SelectedAt(d, config.embeddingRetryThresholds[k]))
            >= config.minCandidatesForPhase2}

\* C10: when the selection at embeddingThreshold reaches
\* minCandidatesForPhase2 it is the result and no retry threshold is
\* applied; otherwise the result is the selection at the first retry
\* threshold, in list order, that reaches the minimum.
C10_FirstReachingThreshold ==
    pc = "llmPhase" =>
        \A d \in DomainSet :
            IF Len(SelectedAt(d, config.embeddingThreshold))
                   >= config.minCandidatesForPhase2
            THEN phase1Results[d] = SelectedAt(d, config.embeddingThreshold)
            ELSE ReachingRetries(d) # {} =>
                    LET first == CHOOSE k \in ReachingRetries(d) :
                                     \A m \in ReachingRetries(d) : k <= m
                    IN  phase1Results[d] =
                            SelectedAt(d, config.embeddingRetryThresholds[first])

\* C10 witness: in one domain the minimum is missed at embeddingThreshold
\* and reached at a retry threshold that is not the last, where a later
\* retry threshold would select more files; in another the minimum is
\* reached at embeddingThreshold, where a retry threshold would select more.
C10_Witness ==
    /\ pc = "llmPhase"
    /\ \E d \in DomainSet :
          /\ Len(SelectedAt(d, config.embeddingThreshold))
                 < config.minCandidatesForPhase2
          /\ ReachingRetries(d) # {}
          /\ \E k \in ReachingRetries(d), m \in DOMAIN config.embeddingRetryThresholds :
                /\ \A n \in ReachingRetries(d) : k <= n
                /\ k < m
                /\ Len(SelectedAt(d, config.embeddingRetryThresholds[m]))
                       > Len(phase1Results[d])
    /\ \E d \in DomainSet :
          /\ Len(SelectedAt(d, config.embeddingThreshold))
                 >= config.minCandidatesForPhase2
          /\ \E m \in DOMAIN config.embeddingRetryThresholds :
                Len(SelectedAt(d, config.embeddingRetryThresholds[m]))
                    > Len(phase1Results[d])

\* The thresholds selectTopCandidates can apply under cfg.
ConfigThresholds(cfg) ==
    {cfg.embeddingThreshold} \cup Range(cfg.embeddingRetryThresholds)

\* The positions of the files whose similarity reaches t.
Qualified(fileSims, t) == {i \in DOMAIN fileSims : fileSims[i].sim >= t}

\* Some configured threshold is reached by at least the minimum of files.
PoolExists(d) ==
    \E t \in ConfigThresholds(config) :
        Cardinality(Qualified(similarities[d], t)) >= config.minCandidatesForPhase2

\* C11 as stated: for any configuration, a domain in which at least
\* minCandidatesForPhase2 files reach one of the configured thresholds is
\* handed to the Assessment Phase with at least minCandidatesForPhase2
\* candidates.
C11_WorkablePool ==
    pc = "llmPhase" =>
        \A d \in DomainSet :
            PoolExists(d) =>
                Len(phase1Results[d]) >= config.minCandidatesForPhase2

\* C11 as amended: the guarantee holds for the configurations with
\* embeddingTopK >= minCandidatesForPhase2; with a smaller embeddingTopK
\* every selection is cut to embeddingTopK entries.
C11_WorkablePoolWithinTopK ==
    pc = "llmPhase" =>
        \A d \in DomainSet :
            /\ (PoolExists(d)
                    /\ config.embeddingTopK >= config.minCandidatesForPhase2) =>
                   Len(phase1Results[d]) >= config.minCandidatesForPhase2
            /\ Len(phase1Results[d]) <= config.embeddingTopK

\* C11 witness: a domain misses a minimum of 2 at embeddingThreshold,
\* reaches it at a retry threshold, and is handed over with 2 or more
\* candidates.
C11_Witness ==
    /\ pc = "llmPhase"
    /\ config.minCandidatesForPhase2 = 2
    /\ config.embeddingTopK >= 2
    /\ \E d \in DomainSet :
          /\ Cardinality(Qualified(similarities[d], config.embeddingThreshold)) < 2
          /\ PoolExists(d)
          /\ Len(phase1Results[d]) >= 2

\* C20: for every threshold t the configuration can apply,
\* filterAndSortByThreshold returns min(topK, number of files with score
\* >= t) distinct files, each with its own score >= t, in non-increasing
\* score order, and no file left out with score >= t has a score strictly
\* greater than a returned one; the candidates handed over are such a
\* selection.
C20_TopKAboveThreshold ==
    /\ \A d \in DomainSet : \A t \in ConfigThresholds(config) :
          LET sims == similarities[d]
              r    == filterAndSortByThreshold(sims, t, config.embeddingTopK)
              q    == Qualified(sims, t)
          IN  /\ Len(r) = Min(config.embeddingTopK, Cardinality(q))
              /\ \A j \in 1..(Len(r) - 1) :
                    r[j].embeddingScore >= r[j + 1].embeddingScore
              /\ \A j \in DOMAIN r :
                    /\ r[j].embeddingScore >= t
                    /\ \E i \in q : /\ sims[i].path = r[j].path
                                     /\ sims[i].sim = r[j].embeddingScore
              /\ Cardinality(PathsOf(r)) = Len(r)
              /\ \A i \in q :
                    sims[i].path \notin PathsOf(r) =>
                        \A j \in DOMAIN r : sims[i].sim <= r[j].embeddingScore
    /\ pc = "llmPhase" =>
          \A d \in DomainSet :
              \E t \in ConfigThresholds(config) :
                  phase1Results[d] =
                      filterAndSortByThreshold(similarities[d], t,
                                               config.embeddingTopK)

\* C20 witness: three files reach embeddingThreshold, topK is 2, and the
\* file left out is the first of the map, with a score strictly below the
\* two returned.
C20_Witness ==
    /\ pc = "llmPhase"
    /\ config.embeddingTopK = 2
    /\ \E d \in DomainSet :
          /\ Cardinality(Qualified(similarities[d], config.embeddingThreshold)) = 3
          /\ Len(phase1Results[d]) = 2
          /\ similarities[d][1].path \notin PathsOf(phase1Results[d])
          /\ \A j \in DOMAIN phase1Results[d] :
                similarities[d][1].sim < phase1Results[d][j].embeddingScore

\* The entries of a fallback assessment line up with the candidates.
FallbackAlignsWithCandidates ==
    \A d \in DomainSet :
        /\ Len(phase2Results[d]) = Len(phase1Results[d])
        /\ \A i \in DOMAIN phase1Results[d] :
              phase2Results[d][i].path = phase1Results[d][i].path

ScoredCandidate(d, i) ==
    computeHybridScore(mergePhaseResults(phase1Results[d], phase2Results[d])[i])

\* The final list of d holds the candidate of that path.
InFinalList(d, path) == path \in PathsOf(finalResults[d])

FallbackTier(score) ==
    IF score > 60 THEN "PRIMARY"
    ELSE IF score > 40 THEN "SECONDARY" ELSE "SUPPORTING"

\* The fallback assessment as a function of the candidates alone.
FallbackOf(candidates) ==
    [i \in DOMAIN candidates |->
        [path |-> candidates[i].path,
         assessment |-> FallbackTier(candidates[i].embeddingScore)]]

\* C13: when the classifier has failed on all 3 attempts, the tiers are a
\* function of the Phase-1 candidates and their scores alone, and the
\* returned lists and counts a function of these and of the configuration:
\* nothing of the failed attempts (their kind, the rejected responses)
\* enters the result.
C13_FallbackDeterminism ==
    phase2Source = "fallback" =>
        /\ \A d \in DomainSet : phase2Results[d] = FallbackOf(phase1Results[d])
        /\ Returned =>
              /\ \A d \in DomainSet :
                    finalResults[d] =
                        hybridScoringPhaseFor(phase1Results[d],
                                              FallbackOf(phase1Results[d]), config)
              /\ metadata.phase2_assessed_files = countCandidates(phase1Results)

\* C13 witness: execute has returned, after three failures, a list that
\* holds a PRIMARY and a SUPPORTING file.
C13_Witness ==
    /\ Returned
    /\ phase2Source = "fallback"
    /\ llmFailures = 3
    /\ \E d \in DomainSet : \E i, j \in DOMAIN finalResults[d] :
          /\ finalResults[d][i].llmAssessment = "PRIMARY"
          /\ finalResults[d][j].llmAssessment = "SUPPORTING"

\* C16: during file-embedding generation at most parallelBatchSize calls
\* are in flight, all of the current batch; while the batch at batchStart
\* is in flight every file before it has been collected, in order, and
\* none after it; when the loop is over the collected embeddings hold
\* exactly one entry per file.
C16_BatchedEmbedding ==
    /\ Cardinality(pending) <= config.parallelBatchSize
    /\ pending \subseteq Range(batchAt(batchStart, config))
    /\ pc = "generateFileEmbeddings" =>
          /\ pending # {}
          /\ pending \cup DOMAIN batchResults = Range(batchAt(batchStart, config))
          /\ pending \cap DOMAIN batchResults = {}
          /\ [i \in DOMAIN fileEmbeddings |-> fileEmbeddings[i].path]
                 = Slice(Files, 0, batchStart)
    /\ pc = "computeSimilarities" =>
          /\ pending = {}
          /\ [i \in DOMAIN fileEmbeddings |-> fileEmbeddings[i].path] = Files

\* C16 witness: with parallelBatchSize 1 the call of the second file is in
\* flight and the embedding of the first has been collected.
C16_Witness ==
    /\ pc = "generateFileEmbeddings"
    /\ config.parallelBatchSize = 1
    /\ batchStart = 1
    /\ pending = {Files[2]}
    /\ Len(fileEmbeddings) = 1
    /\ fileEmbeddings[1].path = Files[1]

\* The number of entries over the three lists.
TotalEntries(result) ==
    Len(result["best_practices"]) + Len(result["functional_requirements"])
        + Len(result["non_functional_requirements"])

\* C17: in every returned result final_included_files is the number of
\* entries of the three lists and is at most phase1_total_candidates, the
\* number of Phase-1 candidates over the three domains.
C17_MetadataCounts ==
    Returned =>
        /\ metadata.final_included_files = TotalEntries(finalResults)
        /\ metadata.phase1_total_candidates = TotalEntries(phase1Results)
        /\ metadata.final_included_files <= metadata.phase1_total_candidates

\* C17 witness: a returned result with files in two lists and fewer files
\* than Phase-1 candidates.
C17_Witness ==
    /\ Returned
    /\ finalResults["best_practices"] # << >>
    /\ finalResults["functional_requirements"] # << >>
    /\ metadata.final_included_files < metadata.phase1_total_candidates

\* What execute returns (processing time apart) when, with the candidates
\* of this run, all three attempts fail.
FallbackRunResult ==
    LET p2    == createFallbackAssessment(phase1Results)
        final == hybridScoringPhase(phase1Results, p2, config)
    IN  [lists |-> final,
         metadata |-> [phase1_total_candidates |-> countCandidates(phase1Results),
                       phase2_assessed_files |-> countCandidates(p2),
                       final_included_files |-> countCandidates(final)]]

\* C18: the result of a run whose assessment came from the model differs,
\* in its lists or its metadata, from the result of the run with the same
\* candidates in which all three attempts fail.
C18_FallbackDistinguishable ==
    (Returned /\ phase2Source = "model") =>
        [lists |-> finalResults, metadata |-> metadata] # FallbackRunResult

\* C19: when embedFiles has returned, success + failed = total, so that a
\* failed count of 0 (exit code 0) means every file was counted as a
\* success.
C19_FailedZeroMeansAllSucceeded ==
    embedFilesPc = "returned" =>
        /\ success + failed = Len(files)
        /\ exitCode = 0 => success = Len(files)

\* C21: when the similarities are computed, for every domain with at least
\* one category and every file, the score is a cosine similarity of the
\* file to one of that domain's category vectors and no category of that
\* domain has a greater one; there is one score per file, keyed by its
\* path.
C21_MaxSimilarityPerDomain ==
    [][pc = "computeSimilarities" =>
          \A d \in DomainSet :
              /\ Len(similarities'[d]) = Len(fileEmbeddings)
              /\ categoryEmbeddings[d] # << >> =>
                    \A i \in DOMAIN fileEmbeddings :
                        LET cos(k) == cosineSimilarity(fileEmbeddings[i].embedding,
                                                       categoryEmbeddings[d][k])
                            cats   == DOMAIN categoryEmbeddings[d]
                        IN  /\ similarities'[d][i].path = fileEmbeddings[i].path
                            /\ \E k \in cats : similarities'[d][i].sim = cos(k)
                            /\ \A k \in cats : similarities'[d][i].sim >= cos(k)
      ]_vars

\* C21 witness: best practices has two categories; a.ts scores 1.0 (its
\* similarities to them are 1.0 and 0.8) and b.ts 0.96 (0.6 and 0.96),
\* while the one non-functional category gives a.ts another score.
C21_Witness ==
    /\ pc = "selectTopCandidates"
    /\ normalizedRequirements["best_practices"] = 2
    /\ similarities["best_practices"] =
          <<[path |-> "a.ts", sim |-> 100], [path |-> "b.ts", sim |-> 96]>>
    /\ similarities["non_functional_requirements"][1].sim = 80

\* The settled call of the current attempt is a failure of one of the three
\* kinds: the provider rejects, the output cannot be parsed, or the parsed
\* output does not hold exactly the expected paths.
AttemptFailed ==
    /\ pc = "generateObject"
    /\ reply # NoReply
    /\ \/ reply.kind \in {"provider_error", "unparsable"}
       \/ reply.kind = "object" /\ ResponsePaths(reply.object) # ExpectedPaths

\* C22: a failed attempt k < 3, of whichever kind, leads to the delay with
\* no call in flight, and the delay leads to attempt k + 1; a call is only
\* issued at the start of the phase or when a delay elapses, so attempt
\* k + 1 never starts before attempt k has settled and the delay has
\* elapsed; the third failure leads to the fallback without a delay.
C22_DelayBetweenFailedAttempts ==
    /\ [](pc = "retryDelay" =>
             /\ attempt < 3
             /\ reply = NoReply
             /\ llmCalls = attempt /\ llmSettled = attempt /\ llmFailures = attempt)
    /\ [][/\ (AttemptFailed /\ attempt < 3) =>
                (pc' = "retryDelay" /\ attempt' = attempt /\ llmCalls' = llmCalls
                    /\ phase2Source' = "none")
          /\ (AttemptFailed /\ attempt = 3) =>
                (pc' = "hybridScoringPhase" /\ phase2Source' = "fallback"
                    /\ llmCalls' = llmCalls)
          /\ pc = "retryDelay" =>
                (pc' = "generateObject" /\ attempt' = attempt + 1
                    /\ llmCalls' = llmCalls + 1 /\ reply' = NoReply)
          /\ llmCalls' # llmCalls => pc \in {"llmPhase", "retryDelay"}
          /\ attempt' # attempt => pc \in {"llmPhase", "retryDelay"}
         ]_vars

\* C22 witness: the first two attempts have failed and the phase waits
\* before the third.
C22_Witness ==
    /\ pc = "retryDelay"
    /\ attempt = 2
    /\ llmFailures = 2
    /\ llmCalls = 2

\* The Phase-2 list of d has no entry for the i-th Phase-1 candidate of d.
Unassessed(d, i) == phase1Results[d][i].path \notin PathsOf(phase2Results[d])

\* C24: fusion never fails, and in a returned result a Phase-1 candidate of
\* a domain that has no entry in that domain's Phase-2 list is scored as
\* IRRELEVANT with hybridScore 0: it is in the final list of the domain
\* only when hybridScoreThreshold <= 0, and then with that tier and that
\* score, whatever tier the file has under another domain.
C24_UnassessedIsIrrelevant ==
    /\ [](Returned =>
             \A d \in DomainSet : \A i \in DOMAIN phase1Results[d] :
                 Unassessed(d, i) =>
                     /\ InFinalList(d, phase1Results[d][i].path)
                            <=> (config.hybridScoreThreshold <= 0)
                     /\ \A j \in DOMAIN finalResults[d] :
                            finalResults[d][j].path = phase1Results[d][i].path =>
                                /\ finalResults[d][j].llmAssessment = "IRRELEVANT"
                                /\ finalResults[d][j].hybridScore = 0)
    /\ [][pc = "hybridScoringPhase" => pc' = "returned"]_vars

\* C24 witness: a.ts is a candidate of best practices and of functional
\* requirements; the accepted response lists it as PRIMARY under
\* functional requirements only, and with hybridScoreThreshold 0 the
\* returned best-practices list holds it as IRRELEVANT with score 0.
C24_Witness ==
    /\ Returned
    /\ phase2Source = "model"
    /\ config.hybridScoreThreshold = 0
    /\ "a.ts" \in PathsOf(phase1Results["best_practices"])
    /\ "a.ts" \notin PathsOf(phase2Results["best_practices"])
    /\ \E k \in DOMAIN phase2Results["functional_requirements"] :
           phase2Results["functional_requirements"][k] =
               [path |-> "a.ts", assessment |-> "PRIMARY"]
    /\ \E j \in DOMAIN finalResults["best_practices"] :
           /\ finalResults["best_practices"][j].path = "a.ts"
           /\ finalResults["best_practices"][j].llmAssessment = "IRRELEVANT"
           /\ finalResults["best_practices"][j].hybridScore = 0
    /\ \E j \in DOMAIN finalResults["functional_requirements"] :
           /\ finalResults["functional_requirements"][j].path = "a.ts"
           /\ finalResults["functional_requirements"][j].llmAssessment = "PRIMARY"

\* Every category of every requirement type has its embedding.
CategoriesEmbedded ==
    \A d \in DomainSet : Len(categoryEmbeddings[d]) = normalizedRequirements[d]

\* The states of execute before llmPhase is called.
BeforePhase2 ==
    {"idle", "generateCategoryEmbeddings", "generateFileEmbeddings",
     "computeSimilarities", "selectTopCandidates", "llmPhase", "thrown"}

\* C25: while category embeddings are generated exactly one call is in
\* flight, for the first category not yet embedded in the order of the
\* requirement types, and no file embedding call has been issued; file
\* embedding calls exist only once every category has exactly one
\* embedding; no classifier call is made before Phase 1 has selected its
\* candidates, and the final lists are computed only after Phase 2 has
\* returned with no call left in flight.
C25_SequentialCategoriesAndPhases ==
    /\ pc = "generateCategoryEmbeddings" =>
          /\ categoryCall # NoCall
          /\ categoryCall.index = Len(categoryEmbeddings[Domains[categoryCall.domain]]) + 1
          /\ categoryCall.index <= normalizedRequirements[Domains[categoryCall.domain]]
          /\ \A k \in DOMAIN Domains :
                /\ k < categoryCall.domain =>
                      Len(categoryEmbeddings[Domains[k]]) = normalizedRequirements[Domains[k]]
                /\ k > categoryCall.domain => categoryEmbeddings[Domains[k]] = << >>
          /\ pending = {} /\ fileEmbeddings = << >> /\ batchResults = EmptyFcn
    /\ pc # "generateCategoryEmbeddings" => categoryCall = NoCall
    /\ (pending # {} \/ pc \in {"generateFileEmbeddings", "computeSimilarities"}) =>
          CategoriesEmbedded
    /\ pc \in BeforePhase2 =>
          (llmCalls = 0 /\ attempt = 0 /\ reply = NoReply /\ phase2Source = "none")
    /\ pc \in BeforePhase2 \ {"llmPhase", "thrown"} => phase1Results = EmptyByDomain
    /\ llmCalls > 0 => (pending = {} /\ ~ embedFailed)
    /\ pc \in {"generateObject", "retryDelay"} => phase2Source = "none"
    /\ pc \in {"hybridScoringPhase", "returned"} =>
          (phase2Source # "none" /\ reply = NoReply /\ llmSettled = llmCalls)
    /\ pc # "returned" => (finalResults = EmptyByDomain /\ metadata = NoMetadata)

\* C25 witness: the call for the second best-practices category is in
\* flight after the first has resolved, and nothing else has been issued.
C25_Witness ==
    /\ pc = "generateCategoryEmbeddings"
    /\ categoryCall = [domain |-> 1, index |-> 2]
    /\ Len(categoryEmbeddings["best_practices"]) = 1
    /\ categoryEmbeddings["non_functional_requirements"] = << >>
    /\ normalizedRequirements["non_functional_requirements"] = 1
    /\ pending = {}

\* The tier the Phase-2 list of d holds for a path: that of its last entry
\* for the path, IRRELEVANT when it has none.
ListedTier(d, path) ==
    LET hits == {k \in DOMAIN phase2Results[d] : phase2Results[d][k].path = path}
    IN  IF hits = {} THEN "IRRELEVANT"
        ELSE phase2Results[d][CHOOSE k \in hits : \A n \in hits : n <= k].assessment

\* C29: in a returned result every candidate f of a domain d is judged by
\* d's own data alone: its tier is the one d's Phase-2 list holds for it,
\* its hybridScore is its embedding score in d times the weight of that
\* tier, and it is in d's final list exactly when that score reaches
\* hybridScoreThreshold; each final list holds each path at most once.
C29_DomainsIndependent ==
    Returned =>
        \A d \in DomainSet :
            /\ Cardinality(PathsOf(finalResults[d])) = Len(finalResults[d])
            /\ \A i \in DOMAIN phase1Results[d] :
                  LET f     == phase1Results[d][i]
                      tier  == ListedTier(d, f.path)
                      score == f.embeddingScore * WeightOf(tier)
                  IN  /\ InFinalList(d, f.path) <=> (score >= config.hybridScoreThreshold)
                      /\ \A j \in DOMAIN finalResults[d] :
                            finalResults[d][j].path = f.path =>
                                finalResults[d][j] =
                                    [path |-> f.path,
                                     embeddingScore |-> f.embeddingScore,
                                     llmAssessment |-> tier,
                                     hybridScore |-> score]

\* C29 witness: the accepted response lists a.ts under best practices only
\* (SUPPORTING) and b.ts under functional requirements only (PRIMARY).
\* a.ts is returned as SUPPORTING with embedding score 0.41 for best
\* practices and as IRRELEVANT with embedding score 0.61 for functional
\* requirements; b.ts is PRIMARY for functional requirements and
\* IRRELEVANT for best practices.
C29_Witness ==
    /\ Returned
    /\ phase2Source = "model"
    /\ phase2Results["best_practices"] =
          <<[path |-> "a.ts", assessment |-> "SUPPORTING"]>>
    /\ phase2Results["functional_requirements"] =
          <<[path |-> "b.ts", assessment |-> "PRIMARY"]>>
    /\ [path |-> "a.ts", embeddingScore |-> 41, llmAssessment |-> "SUPPORTING",
         hybridScore |-> 41 * WeightOf("SUPPORTING")]
           \in Range(finalResults["best_practices"])
    /\ [path |-> "a.ts", embeddingScore |-> 61, llmAssessment |-> "IRRELEVANT",
         hybridScore |-> 0]
           \in Range(finalResults["functional_requirements"])
    /\ [path |-> "b.ts", embeddingScore |-> 39, llmAssessment |-> "PRIMARY",
         hybridScore |-> 39 * WeightOf("PRIMARY")]
           \in Range(finalResults["functional_requirements"])
    /\ \E e \in Range(finalResults["best_practices"]) :
           e.path = "b.ts" /\ e.llmAssessment = "IRRELEVANT"

\* No file reaches any configured threshold in domain d; this includes a
\* domain without categories, whose scores are all -Infinity.
NoneSelectable(d) ==
    \A t \in ConfigThresholds(config) : Qualified(similarities[d], t) = {}

\* C27: Phase 1 never fails on a domain in which no file reaches any
\* threshold: it hands over an empty candidate list for it and goes on to
\* the Assessment Phase; execute does not throw afterwards, and in its
\* result the list of a domain without candidates is empty while every
\* other domain's list holds exactly its candidates whose hybridScore
\* reaches hybridScoreThreshold.
C27_EmptyDomainIsNoError ==
    /\ [][pc = "selectTopCandidates" =>
              /\ pc' = "llmPhase"
              /\ \A d \in DomainSet :
                    NoneSelectable(d) => phase1Results'[d] = << >>
         ]_vars
    /\ [](pc # "thrown")
    /\ [](Returned =>
             \A d \in DomainSet :
                 /\ phase1Results[d] = << >> => finalResults[d] = << >>
                 /\ PathsOf(finalResults[d]) =
                       {phase1Results[d][i].path : i \in
                           {k \in DOMAIN phase1Results[d] :
                               ScoredCandidate(d, k).hybridScore
                                   >= config.hybridScoreThreshold}})

\* C27 witness: best practices has a category but neither file reaches
\* 0.61 or 0.60, and non-functional requirements has no category; execute
\* has returned with both lists empty and a.ts, assessed by the model, in
\* the list of functional requirements.
C27_Witness ==
    /\ Returned
    /\ phase2Source = "model"
    /\ config.embeddingThreshold = 61
    /\ normalizedRequirements["best_practices"] = 1
    /\ normalizedRequirements["non_functional_requirements"] = 0
    /\ phase1Results["best_practices"] = << >>
    /\ phase1Results["non_functional_requirements"] = << >>
    /\ finalResults["best_practices"] = << >>
    /\ finalResults["non_functional_requirements"] = << >>
    /\ PathsOf(finalResults["functional_requirements"]) = {"a.ts"}

\* maxTokensPerFile * 4 for the options of the run.
MaxChars == MergeOptions(DEFAULT_OPTIONS, options).maxTokensPerFile * CharsPerToken

\* C28 as stated: the content part of a built text has at most
\* maxTokensPerFile * 4 characters, and a content of at most that many
\* characters is the content part unchanged.
C28_ContentWithinBudget ==
    fileText # NoText =>
        /\ Len(fileText.truncated) <= MaxChars
        /\ Len(content) <= MaxChars => fileText.truncated = content

\* C28 as amended: a content of at most maxTokensPerFile * 4 characters is
\* the content part unchanged; a longer content is cut to its first
\* maxTokensPerFile * 4 characters, followed by the 20 characters of the
\* truncation marker, so that the content part has at most
\* maxTokensPerFile * 4 + 20 characters.
C28_ContentWithinBudgetPlusMarker ==
    fileText # NoText =>
        /\ Len(content) <= MaxChars => fileText.truncated = content
        /\ Len(content) > MaxChars =>
              /\ SubSeq(fileText.truncated, 1, MaxChars) = SubSeq(content, 1, MaxChars)
              /\ SubSeq(fileText.truncated, MaxChars + 1, Len(fileText.truncated))
                    = truncationMarker
        /\ Len(fileText.truncated) <= MaxChars + 20

\* C28 witness: with maxTokensPerFile 1 a content of 6 characters has been
\* cut: the content part has 24 characters.
C28_Witness ==
    /\ fileText # NoText
    /\ MaxChars = 4
    /\ Len(content) = 6
    /\ Len(fileText.truncated) = 24

\* The request of the generateObject call in flight.
Request ==
    generateObjectRequest(attempt, filesContentSummary, normalizedRequirements,
                          phase1Results)

\* The candidate paths the request presents as the files to assess.
SentPaths == Range(filteredSummaries(filesContentSummary, phase1Results))

\* C23: a response is accepted if and only if the set of its paths equals
\* the set of candidate paths sent in the request, the Phase-1 candidates
\* that have a file summary; in particular a response that labels exactly
\* the files it was sent is accepted.
C23_ExpectedEqualsSent ==
    [][ResponseArrived =>
          (ResponseAccepted <=> (ResponsePaths(reply.object) = SentPaths))
      ]_vars

\* The user message u holds the requirements, the summaries of the
\* candidates and the embedding scores.
IsFullUserPrompt(u) ==
    /\ {"requirements", "candidateFiles", "embeddingScores"} \subseteq DOMAIN u
    /\ u.requirements = normalizedRequirements
    /\ u.candidateFiles = filteredSummaries(filesContentSummary, phase1Results)

\* The user message u holds every candidate under its domain.
HoldsCandidatesByDomain(u) ==
    /\ "embeddingScores" \in DOMAIN u
    /\ \A d \in DomainSet :
          PathsOf(u.embeddingScores[d]) = PathsOf(phase1Results[d])

\* The user message u is nothing but a heading, a number of files and a
\* flat list of the paths of the candidates that have a summary.
IsTerseUserPrompt(u) ==
    /\ DOMAIN u = {"heading", "totalFiles", "files"}
    /\ u.files = filteredSummaries(filesContentSummary, phase1Results)
    /\ u.totalFiles = Len(u.files)

\* The system prompt is the instructions followed by one more section.
HasDirectiveAppended(system) ==
    /\ Len(system) = Len(buildSystemPrompt) + 1
    /\ SubSeq(system, 1, Len(buildSystemPrompt)) = buildSystemPrompt

\* C26 as stated: while a classifier call is in flight, attempt 1 has sent
\* the full system and user prompt, attempt 2 the full prompt with a
\* directive appended, attempt 3 a terse prompt, and on every attempt the
\* request holds every candidate under its domain.
C26_PromptByAttempt ==
    pc = "generateObject" =>
        /\ attempt = 1 =>
              (Request.system = buildSystemPrompt /\ IsFullUserPrompt(Request.user))
        /\ attempt = 2 =>
              (HasDirectiveAppended(Request.system) /\ IsFullUserPrompt(Request.user))
        /\ attempt = 3 => IsTerseUserPrompt(Request.user)
        /\ HoldsCandidatesByDomain(Request.user)

\* C26 as amended: while a classifier call is in flight, attempt 1 has sent
\* the instructions and the full user prompt, which holds every candidate
\* under its domain; attempts 2 and 3 have sent the instructions with a
\* directive appended, a different one for each, and a terse user message
\* that lists the paths of the candidates that have a summary, without
\* requirements, summaries, scores or domains.
C26_TerseRetryPrompts ==
    pc = "generateObject" =>
        /\ attempt = 1 =>
              /\ Request.system = buildSystemPrompt
              /\ IsFullUserPrompt(Request.user)
              /\ HoldsCandidatesByDomain(Request.user)
        /\ attempt \in {2, 3} =>
              /\ HasDirectiveAppended(Request.system)
              /\ IsTerseUserPrompt(Request.user)
              /\ ~ HoldsCandidatesByDomain(Request.user)
        /\ generateObjectRequest(2, filesContentSummary, normalizedRequirements,
                                 phase1Results)
              # generateObjectRequest(3, filesContentSummary,
                                      normalizedRequirements, phase1Results)

\* C26 witness: the second attempt is in flight; a.ts and b.ts are
\* candidates of two domains and both have a summary, and the user message
\* lists the two paths.
C26_Witness ==
    /\ pc = "generateObject"
    /\ attempt = 2
    /\ reply = NoReply
    /\ PathsOf(phase1Results["best_practices"]) = {"a.ts", "b.ts"}
    /\ PathsOf(phase1Results["functional_requirements"]) = {"a.ts", "b.ts"}
    /\ filesContentSummary = <<"a.ts", "b.ts">>
    /\ Request.user.files = <<"a.ts", "b.ts">>

\* C30: when every call eventually settles, every call of execute
\* eventually completes: it returns a result or throws.
C30_ExecuteCompletes == (pc # "idle") ~> (pc \in {"returned", "thrown"})

\* C30 witness: with parallelBatchSize 1 execute has returned after two
\* batches of one file and three failed classifier attempts.
C30_Witness ==
    /\ pc = "returned"
    /\ config.parallelBatchSize = 1
    /\ Len(Files) = 2
    /\ batchStart = 2
    /\ attempt = 3
    /\ llmFailures = 3
    /\ phase2Source = "fallback"

-----------------------------------------------------------------------------
(* The consumer of the result: AgentOrchestratorService.extractRelevantFiles *)

\* filteredFilesMap, as the route passes it to execute and to orchestrate.
filteredFilesMap ==
    [p \in FileSet |-> IF p = "a.ts" THEN "export const a = 1"
                       ELSE "export const b = 2"]

\* The truth value of file.included: false for an object without that
\* property (undefined).
isIncluded(file) == "included" \in DOMAIN file /\ file.included = TRUE

\* The truth value of filesMap[path]: false for a missing key (undefined)
\* and for an empty content.
hasContent(filesMap, path) == path \in DOMAIN filesMap /\ filesMap[path] # ""

\* extractRelevantFiles: the keys of `relevant`; the method returns null
\* when there is none.
extractRelevantFiles(scoredFiles, filesMap) ==
    {scoredFiles[i].path : i \in {j \in DOMAIN scoredFiles :
        isIncluded(scoredFiles[j]) /\ hasContent(filesMap, scoredFiles[j].path)}}

\* C15: every file execute returns carries included = true, so that
\* extractRelevantFiles passes on every returned file that is in the files
\* map.
C15_IncludedFlagSet ==
    Returned =>
        \A d \in DomainSet :
            /\ \A j \in DOMAIN finalResults[d] : isIncluded(finalResults[d][j])
            /\ extractRelevantFiles(finalResults[d], filteredFilesMap)
                   = PathsOf(finalResults[d]) \cap DOMAIN filteredFilesMap

====
